---- MODULE Spec2Model ----
(***************************************************************************)
(* Request header codec of rust-http (src/libhttp/headers/request.rs):     *)
(* the Header enum, HeaderCollection::new / insert, and the HeaderEnum     *)
(* implementation (header_name, write_header, value_from_stream).          *)
(*                                                                         *)
(* Text (~str, byte sinks, value sources) is modelled by TLA+ strings; a   *)
(* character is a string of length one.  Option<T> is modelled by a        *)
(* sequence of length at most one: None is << >> and Some(x) is <<x>>.     *)
(***************************************************************************)
EXTENDS Integers, Sequences, FiniteSets, TLC

\* ------------------------------------------------------------- bounds ---

\* Longest text payload of a header that is written.
MaxLen == 2

\* Longest raw value handed to value_from_stream directly.
MaxValueLen == 3

\* Largest unsigned payload that is written (covers 0, one and two digits).
MaxUint == 11

\* Number of insert calls on one collection.
MaxInserts == 2

\* Number of write_header calls on one sink in the stream specification.
MaxWrites == 2

\* --------------------------------------------------------------- text ---

None == << >>

Some(x) == <<x>>

At(s, i) == SubSeq(s, i, i)

\* The characters values are built from: a token letter, a digit, and the
\* three characters the quoting grammar treats specially.
Alphabet == {"a", "1", " ", "\"", "\\"}

RECURSIVE TextsUpTo(_)
TextsUpTo(n) ==
    IF n = 0 THEN {""}
    ELSE LET shorter == TextsUpTo(n - 1)
         IN  shorter \cup {s \o c : s \in shorter, c \in Alphabet}

\* RFC 2616 separators and the control characters that can occur here.
Separators ==
    {"(", ")", "<", ">", "@", ",", ";", ":", "\\", "\"", "/", "[", "]", "?",
     "=", "{", "}", " ", "\t"}

Controls == {"\r", "\n"}

is_token_item(c) == c \notin Separators /\ c \notin Controls

is_token(t) == \A i \in 1..Len(t) : is_token_item(At(t, i))

\* Position of the first occurrence of character c in s, or 0.
IndexOf(s, c) ==
    IF \E i \in 1..Len(s) : At(s, i) = c
    THEN CHOOSE i \in 1..Len(s) : At(s, i) = c /\ \A j \in 1..(i - 1) : At(s, j) # c
    ELSE 0

RECURSIVE TrimLeft(_)
TrimLeft(s) == IF s # "" /\ At(s, 1) = " " THEN TrimLeft(Tail(s)) ELSE s

\* ---------------------------------------------------- quoting utilities ---

RECURSIVE escape(_)
escape(t) ==
    IF t = "" THEN ""
    ELSE LET c == At(t, 1)
         IN  (IF c = "\\" \/ c = "\"" THEN "\\" \o c ELSE c) \o escape(Tail(t))

push_quoted_string(s, t) == s \o "\"" \o escape(t) \o "\""

\* serialization_utils::push_maybe_quoted_string: append t to s, quoted and
\* escaped when t holds a character outside the token grammar.
push_maybe_quoted_string(s, t) ==
    IF is_token(t) THEN s \o t ELSE push_quoted_string(s, t)

\* Scan of a quoted string after its opening quote.  state is "Normal",
\* "Escaping" or "End"; the result is Some(text) or None when malformed.
RECURSIVE unquote_scan(_, _, _)
unquote_scan(s, state, output) ==
    IF s = "" THEN (IF state = "End" THEN Some(output) ELSE None)
    ELSE LET c == At(s, 1)
         IN  CASE state = "End" -> None
               [] state = "Escaping" -> unquote_scan(Tail(s), "Normal", output \o c)
               [] state = "Normal" /\ c = "\\" -> unquote_scan(Tail(s), "Escaping", output)
               [] state = "Normal" /\ c = "\"" -> unquote_scan(Tail(s), "End", output)
               [] OTHER -> unquote_scan(Tail(s), "Normal", output \o c)

\* serialization_utils::maybe_unquote_string: a well-formed quoted string
\* loses its quotes and escapes; any other text, malformed quoting
\* included, is returned as it is.
maybe_unquote_string(s) ==
    IF s # "" /\ At(s, 1) = "\""
    THEN LET r == unquote_scan(Tail(s), "Normal", "")
         IN  IF r # None THEN r ELSE Some(s)
    ELSE Some(s)

\* HeaderValueByteIterator::collect_to_str: every remaining byte of the
\* (already unfolded) value, untrimmed.
collect_to_str(value) == value

\* ------------------------------------------- value conversion protocol ---

Digits == "0123456789"

is_digit(c) == \E d \in 1..10 : At(Digits, d) = c

DigitVal(c) == (CHOOSE d \in 1..10 : At(Digits, d) = c) - 1

RECURSIVE uint_to_str(_)
uint_to_str(n) ==
    IF n < 10 THEN At(Digits, n + 1)
    ELSE uint_to_str(n \div 10) \o At(Digits, (n % 10) + 1)

RECURSIVE digits_value(_, _)
digits_value(s, acc) ==
    IF s = "" THEN acc ELSE digits_value(Tail(s), 10 * acc + DigitVal(At(s, 1)))

\* uint: consecutive decimal digits; None on empty or non-digit content.
\* (Values here have at most a handful of digits, far below the uint range.)
uint_from_stream(v) ==
    IF v # "" /\ \A i \in 1..Len(v) : is_digit(At(v, i))
    THEN Some(digits_value(v, 0))
    ELSE None

\* Tm: broken-down UTC times, written in the RFC 1123 form
\* "Sun, 06 Nov 1994 08:49:37 GMT".
TmValues ==
    {[tm_sec |-> 37, tm_min |-> 49, tm_hour |-> 8, tm_mday |-> 6, tm_mon |-> 10,
      tm_year |-> 94, tm_wday |-> 0],
     [tm_sec |-> 0, tm_min |-> 0, tm_hour |-> 0, tm_mday |-> 1, tm_mon |-> 0,
      tm_year |-> 70, tm_wday |-> 4]}

DayNames == <<"Sun", "Mon", "Tue", "Wed", "Thu", "Fri", "Sat">>

MonthNames ==
    <<"Jan", "Feb", "Mar", "Apr", "May", "Jun", "Jul", "Aug", "Sep", "Oct", "Nov", "Dec">>

Pad2(n) == IF n < 10 THEN "0" \o uint_to_str(n) ELSE uint_to_str(n)

Tm_to_str(tm) ==
    DayNames[tm.tm_wday + 1] \o ", " \o Pad2(tm.tm_mday) \o " "
        \o MonthNames[tm.tm_mon + 1] \o " " \o uint_to_str(1900 + tm.tm_year) \o " "
        \o Pad2(tm.tm_hour) \o ":" \o Pad2(tm.tm_min) \o ":" \o Pad2(tm.tm_sec) \o " GMT"

\* The time parser accepts exactly the RFC 1123 form of a time.
Tm_from_stream(v) ==
    IF \E tm \in TmValues : Tm_to_str(tm) = v
    THEN Some(CHOOSE tm \in TmValues : Tm_to_str(tm) = v)
    ELSE None

\* Comma-joined lists (Connection tokens, Allow methods).
RECURSIVE join(_)
join(items) ==
    IF Len(items) = 0 THEN ""
    ELSE IF Len(items) = 1 THEN items[1]
    ELSE items[1] \o ", " \o join(Tail(items))

RECURSIVE split_list(_)
split_list(v) ==
    LET i == IndexOf(v, ",")
    IN  IF i = 0 THEN <<TrimLeft(v)>>
        ELSE <<TrimLeft(SubSeq(v, 1, i - 1))>> \o split_list(SubSeq(v, i + 1, Len(v)))

list_from_stream(v) ==
    LET items == split_list(v)
    IN  IF \A k \in 1..Len(items) : items[k] # "" /\ is_token(items[k])
        THEN Some(items)
        ELSE None

\* Host: host[:port].
Host_to_str(h) ==
    IF h.port = None THEN h.name ELSE h.name \o ":" \o uint_to_str(h.port[1])

Host_from_stream(v) ==
    LET i == IndexOf(v, ":")
        hostname == IF i = 0 THEN v ELSE SubSeq(v, 1, i - 1)
        port == IF i = 0 THEN None ELSE uint_from_stream(SubSeq(v, i + 1, Len(v)))
    IN  IF hostname = "" \/ ~is_token(hostname) \/ (i # 0 /\ port = None)
        THEN None
        ELSE Some([name |-> hostname, port |-> port])

\* HeaderConvertible::to_stream of a payload of the given type.
to_stream(type, h) ==
    CASE type = "~str" -> h
      [] type = "uint" -> uint_to_str(h)
      [] type = "Tm" -> Tm_to_str(h)
      [] type = "Connection" -> join(h)
      [] type = "Allow" -> join(h)
      [] type = "Host" -> Host_to_str(h)

\* HeaderConvertible::from_stream for a payload of the given type.
from_stream(type, value) ==
    CASE type = "~str" -> Some(collect_to_str(value))
      [] type = "uint" -> uint_from_stream(collect_to_str(value))
      [] type = "Tm" -> Tm_from_stream(collect_to_str(value))
      [] type = "Connection" -> list_from_stream(collect_to_str(value))
      [] type = "Allow" -> list_from_stream(collect_to_str(value))
      [] type = "Host" -> Host_from_stream(collect_to_str(value))

\* ------------------------------------------------------- enum Header ---

\* The tags of the known fields; "ExtensionHeader" is the catch-all tag.
KnownTags ==
    {"CacheControl", "Connection", "Date", "Pragma",
     "Trailer", "TransferEncoding", "Upgrade", "Via",
     "Warning", "Accept", "AcceptCharset", "AcceptEncoding",
     "AcceptLanguage", "Authorization", "Expect", "From",
     "Host", "IfMatch", "IfModifiedSince", "IfNoneMatch",
     "IfRange", "IfUnmodifiedSince", "MaxForwards", "ProxyAuthorization",
     "Range", "Referer", "Te", "UserAgent",
     "Allow", "ContentEncoding", "ContentLanguage", "ContentLength",
     "ContentLocation", "ContentMd5", "ContentRange", "ContentType",
     "Expires", "LastModified"}

\* A known-field variant Tag(value).
Hdr(tag, value) == [tag |-> tag, value |-> value]

ExtensionHeader(name, value) == [tag |-> "ExtensionHeader", name |-> name, value |-> value]

\* The payload type the enum declares for each known tag.
PayloadType(tag) ==
    CASE tag = "CacheControl" -> "~str"
      [] tag = "Connection" -> "Connection"
      [] tag = "Date" -> "Tm"
      [] tag = "Pragma" -> "~str"
      [] tag = "Trailer" -> "~str"
      [] tag = "TransferEncoding" -> "~str"
      [] tag = "Upgrade" -> "~str"
      [] tag = "Via" -> "~str"
      [] tag = "Warning" -> "~str"
      [] tag = "Accept" -> "~str"
      [] tag = "AcceptCharset" -> "~str"
      [] tag = "AcceptEncoding" -> "~str"
      [] tag = "AcceptLanguage" -> "~str"
      [] tag = "Authorization" -> "~str"
      [] tag = "Expect" -> "~str"
      [] tag = "From" -> "~str"
      [] tag = "Host" -> "Host"
      [] tag = "IfMatch" -> "~str"
      [] tag = "IfModifiedSince" -> "Tm"
      [] tag = "IfNoneMatch" -> "~str"
      [] tag = "IfRange" -> "~str"
      [] tag = "IfUnmodifiedSince" -> "Tm"
      [] tag = "MaxForwards" -> "uint"
      [] tag = "ProxyAuthorization" -> "~str"
      [] tag = "Range" -> "~str"
      [] tag = "Referer" -> "~str"
      [] tag = "Te" -> "~str"
      [] tag = "UserAgent" -> "~str"
      [] tag = "Allow" -> "Allow"
      [] tag = "ContentEncoding" -> "~str"
      [] tag = "ContentLanguage" -> "~str"
      [] tag = "ContentLength" -> "uint"
      [] tag = "ContentLocation" -> "~str"
      [] tag = "ContentMd5" -> "~str"
      [] tag = "ContentRange" -> "~str"
      [] tag = "ContentType" -> "~str"
      [] tag = "Expires" -> "Tm"
      [] tag = "LastModified" -> "Tm"

\* ------------------------------------------------ HeaderCollection ---

\* extra::treemap::TreeMap: a finite map; insert sets or replaces the
\* value stored under the key.
EmptyMap == [k \in {} |-> ""]

TreeMapInsert(map, key, value) ==
    [k \in (DOMAIN map) \cup {key} |-> IF k = key THEN value ELSE map[k]]

\* HeaderCollection::new
new ==
    [cache_control |-> None,
     connection |-> None,
     date |-> None,
     pragma |-> None,
     trailer |-> None,
     transfer_encoding |-> None,
     upgrade |-> None,
     via |-> None,
     warning |-> None,
     accept |-> None,
     accept_charset |-> None,
     accept_encoding |-> None,
     accept_language |-> None,
     authorization |-> None,
     expect |-> None,
     from |-> None,
     host |-> None,
     if_match |-> None,
     if_modified_since |-> None,
     if_none_match |-> None,
     if_range |-> None,
     if_unmodified_since |-> None,
     max_forwards |-> None,
     proxy_authorization |-> None,
     range |-> None,
     referer |-> None,
     te |-> None,
     user_agent |-> None,
     allow |-> None,
     content_encoding |-> None,
     content_language |-> None,
     content_length |-> None,
     content_location |-> None,
     content_md5 |-> None,
     content_range |-> None,
     content_type |-> None,
     expires |-> None,
     last_modified |-> None,
     extensions |-> EmptyMap]

\* The field of the struct declared for a known tag (the tag in snake case).
FieldOf(tag) ==
    CASE tag = "CacheControl" -> "cache_control"
      [] tag = "Connection" -> "connection"
      [] tag = "Date" -> "date"
      [] tag = "Pragma" -> "pragma"
      [] tag = "Trailer" -> "trailer"
      [] tag = "TransferEncoding" -> "transfer_encoding"
      [] tag = "Upgrade" -> "upgrade"
      [] tag = "Via" -> "via"
      [] tag = "Warning" -> "warning"
      [] tag = "Accept" -> "accept"
      [] tag = "AcceptCharset" -> "accept_charset"
      [] tag = "AcceptEncoding" -> "accept_encoding"
      [] tag = "AcceptLanguage" -> "accept_language"
      [] tag = "Authorization" -> "authorization"
      [] tag = "Expect" -> "expect"
      [] tag = "From" -> "from"
      [] tag = "Host" -> "host"
      [] tag = "IfMatch" -> "if_match"
      [] tag = "IfModifiedSince" -> "if_modified_since"
      [] tag = "IfNoneMatch" -> "if_none_match"
      [] tag = "IfRange" -> "if_range"
      [] tag = "IfUnmodifiedSince" -> "if_unmodified_since"
      [] tag = "MaxForwards" -> "max_forwards"
      [] tag = "ProxyAuthorization" -> "proxy_authorization"
      [] tag = "Range" -> "range"
      [] tag = "Referer" -> "referer"
      [] tag = "Te" -> "te"
      [] tag = "UserAgent" -> "user_agent"
      [] tag = "Allow" -> "allow"
      [] tag = "ContentEncoding" -> "content_encoding"
      [] tag = "ContentLanguage" -> "content_language"
      [] tag = "ContentLength" -> "content_length"
      [] tag = "ContentLocation" -> "content_location"
      [] tag = "ContentMd5" -> "content_md5"
      [] tag = "ContentRange" -> "content_range"
      [] tag = "ContentType" -> "content_type"
      [] tag = "Expires" -> "expires"
      [] tag = "LastModified" -> "last_modified"

slot(self, tag) == self[FieldOf(tag)]

\* insert, were a filled slot kept instead of overwritten.
insert_keeps_first(self, header) ==
    IF header.tag = "ExtensionHeader"
    THEN [self EXCEPT !.extensions = TreeMapInsert(self.extensions, header.name, header.value)]
    ELSE IF slot(self, header.tag) # None
    THEN self
    ELSE [self EXCEPT ![FieldOf(header.tag)] = Some(header.value)]

\* insert, were an extension name already present kept with its old value.
insert_keeps_first_extension(self, header) ==
    IF header.tag = "ExtensionHeader"
    THEN IF header.name \in DOMAIN self.extensions
         THEN self
         ELSE [self EXCEPT !.extensions = TreeMapInsert(self.extensions, header.name, header.value)]
    ELSE [self EXCEPT ![FieldOf(header.tag)] = Some(header.value)]

\* insert, were the extension arm to start a fresh map for the entry.
insert_fresh_map(self, header) ==
    IF header.tag = "ExtensionHeader"
    THEN [self EXCEPT !.extensions = TreeMapInsert(EmptyMap, header.name, header.value)]
    ELSE [self EXCEPT ![FieldOf(header.tag)] = Some(header.value)]

\* HeaderCollection::insert
insert(self, header) ==
    CASE header.tag = "CacheControl" -> [self EXCEPT !.cache_control = Some(header.value)]
      [] header.tag = "Connection" -> [self EXCEPT !.connection = Some(header.value)]
      [] header.tag = "Date" -> [self EXCEPT !.date = Some(header.value)]
      [] header.tag = "Pragma" -> [self EXCEPT !.pragma = Some(header.value)]
      [] header.tag = "Trailer" -> [self EXCEPT !.trailer = Some(header.value)]
      [] header.tag = "TransferEncoding" -> [self EXCEPT !.transfer_encoding = Some(header.value)]
      [] header.tag = "Upgrade" -> [self EXCEPT !.upgrade = Some(header.value)]
      [] header.tag = "Via" -> [self EXCEPT !.via = Some(header.value)]
      [] header.tag = "Warning" -> [self EXCEPT !.warning = Some(header.value)]
      [] header.tag = "Accept" -> [self EXCEPT !.accept = Some(header.value)]
      [] header.tag = "AcceptCharset" -> [self EXCEPT !.accept_charset = Some(header.value)]
      [] header.tag = "AcceptEncoding" -> [self EXCEPT !.accept_encoding = Some(header.value)]
      [] header.tag = "AcceptLanguage" -> [self EXCEPT !.accept_language = Some(header.value)]
      [] header.tag = "Authorization" -> [self EXCEPT !.authorization = Some(header.value)]
      [] header.tag = "Expect" -> [self EXCEPT !.expect = Some(header.value)]
      [] header.tag = "From" -> [self EXCEPT !.from = Some(header.value)]
      [] header.tag = "Host" -> [self EXCEPT !.host = Some(header.value)]
      [] header.tag = "IfMatch" -> [self EXCEPT !.if_match = Some(header.value)]
      [] header.tag = "IfModifiedSince" -> [self EXCEPT !.if_modified_since = Some(header.value)]
      [] header.tag = "IfNoneMatch" -> [self EXCEPT !.if_none_match = Some(header.value)]
      [] header.tag = "IfRange" -> [self EXCEPT !.if_range = Some(header.value)]
      [] header.tag = "IfUnmodifiedSince" -> [self EXCEPT !.if_unmodified_since = Some(header.value)]
      [] header.tag = "MaxForwards" -> [self EXCEPT !.max_forwards = Some(header.value)]
      [] header.tag = "ProxyAuthorization" -> [self EXCEPT !.proxy_authorization = Some(header.value)]
      [] header.tag = "Range" -> [self EXCEPT !.range = Some(header.value)]
      [] header.tag = "Referer" -> [self EXCEPT !.referer = Some(header.value)]
      [] header.tag = "Te" -> [self EXCEPT !.te = Some(header.value)]
      [] header.tag = "UserAgent" -> [self EXCEPT !.user_agent = Some(header.value)]
      [] header.tag = "Allow" -> [self EXCEPT !.allow = Some(header.value)]
      [] header.tag = "ContentEncoding" -> [self EXCEPT !.content_encoding = Some(header.value)]
      [] header.tag = "ContentLanguage" -> [self EXCEPT !.content_language = Some(header.value)]
      [] header.tag = "ContentLength" -> [self EXCEPT !.content_length = Some(header.value)]
      [] header.tag = "ContentLocation" -> [self EXCEPT !.content_location = Some(header.value)]
      [] header.tag = "ContentMd5" -> [self EXCEPT !.content_md5 = Some(header.value)]
      [] header.tag = "ContentRange" -> [self EXCEPT !.content_range = Some(header.value)]
      [] header.tag = "ContentType" -> [self EXCEPT !.content_type = Some(header.value)]
      [] header.tag = "Expires" -> [self EXCEPT !.expires = Some(header.value)]
      [] header.tag = "LastModified" -> [self EXCEPT !.last_modified = Some(header.value)]
      [] header.tag = "ExtensionHeader" ->
           [self EXCEPT !.extensions = TreeMapInsert(self.extensions, header.name, header.value)]

\* ------------------------------------------ impl HeaderEnum for Header ---

\* header_name, were the If-None-Match arm a copy of the If-Match arm.
header_name_copied_arm(self) ==
    CASE self.tag = "CacheControl" -> "Cache-Control"
      [] self.tag = "Connection" -> "Connection"
      [] self.tag = "Date" -> "Date"
      [] self.tag = "Pragma" -> "Pragma"
      [] self.tag = "Trailer" -> "Trailer"
      [] self.tag = "TransferEncoding" -> "Transfer-Encoding"
      [] self.tag = "Upgrade" -> "Upgrade"
      [] self.tag = "Via" -> "Via"
      [] self.tag = "Warning" -> "Warning"
      [] self.tag = "Accept" -> "Accept"
      [] self.tag = "AcceptCharset" -> "Accept-Charset"
      [] self.tag = "AcceptEncoding" -> "Accept-Encoding"
      [] self.tag = "AcceptLanguage" -> "Accept-Language"
      [] self.tag = "Authorization" -> "Authorization"
      [] self.tag = "Expect" -> "Expect"
      [] self.tag = "From" -> "From"
      [] self.tag = "Host" -> "Host"
      [] self.tag = "IfMatch" -> "If-Match"
      [] self.tag = "IfModifiedSince" -> "If-Modified-Since"
      [] self.tag = "IfNoneMatch" -> "If-Match"
      [] self.tag = "IfRange" -> "If-Range"
      [] self.tag = "IfUnmodifiedSince" -> "If-Unmodified-Since"
      [] self.tag = "MaxForwards" -> "Max-Forwards"
      [] self.tag = "ProxyAuthorization" -> "Proxy-Authorization"
      [] self.tag = "Range" -> "Range"
      [] self.tag = "Referer" -> "Referer"
      [] self.tag = "Te" -> "TE"
      [] self.tag = "UserAgent" -> "User-Agent"
      [] self.tag = "Allow" -> "Allow"
      [] self.tag = "ContentEncoding" -> "Content-Encoding"
      [] self.tag = "ContentLanguage" -> "Content-Language"
      [] self.tag = "ContentLength" -> "Content-Length"
      [] self.tag = "ContentLocation" -> "Content-Location"
      [] self.tag = "ContentMd5" -> "Content-MD5"
      [] self.tag = "ContentRange" -> "Content-Range"
      [] self.tag = "ContentType" -> "Content-Type"
      [] self.tag = "Expires" -> "Expires"
      [] self.tag = "LastModified" -> "Last-Modified"
      [] self.tag = "ExtensionHeader" -> self.name

\* Header::header_name
header_name(self) ==
    CASE self.tag = "CacheControl" -> "Cache-Control"
      [] self.tag = "Connection" -> "Connection"
      [] self.tag = "Date" -> "Date"
      [] self.tag = "Pragma" -> "Pragma"
      [] self.tag = "Trailer" -> "Trailer"
      [] self.tag = "TransferEncoding" -> "Transfer-Encoding"
      [] self.tag = "Upgrade" -> "Upgrade"
      [] self.tag = "Via" -> "Via"
      [] self.tag = "Warning" -> "Warning"
      [] self.tag = "Accept" -> "Accept"
      [] self.tag = "AcceptCharset" -> "Accept-Charset"
      [] self.tag = "AcceptEncoding" -> "Accept-Encoding"
      [] self.tag = "AcceptLanguage" -> "Accept-Language"
      [] self.tag = "Authorization" -> "Authorization"
      [] self.tag = "Expect" -> "Expect"
      [] self.tag = "From" -> "From"
      [] self.tag = "Host" -> "Host"
      [] self.tag = "IfMatch" -> "If-Match"
      [] self.tag = "IfModifiedSince" -> "If-Modified-Since"
      [] self.tag = "IfNoneMatch" -> "If-None-Match"
      [] self.tag = "IfRange" -> "If-Range"
      [] self.tag = "IfUnmodifiedSince" -> "If-Unmodified-Since"
      [] self.tag = "MaxForwards" -> "Max-Forwards"
      [] self.tag = "ProxyAuthorization" -> "Proxy-Authorization"
      [] self.tag = "Range" -> "Range"
      [] self.tag = "Referer" -> "Referer"
      [] self.tag = "Te" -> "TE"
      [] self.tag = "UserAgent" -> "User-Agent"
      [] self.tag = "Allow" -> "Allow"
      [] self.tag = "ContentEncoding" -> "Content-Encoding"
      [] self.tag = "ContentLanguage" -> "Content-Language"
      [] self.tag = "ContentLength" -> "Content-Length"
      [] self.tag = "ContentLocation" -> "Content-Location"
      [] self.tag = "ContentMd5" -> "Content-MD5"
      [] self.tag = "ContentRange" -> "Content-Range"
      [] self.tag = "ContentType" -> "Content-Type"
      [] self.tag = "Expires" -> "Expires"
      [] self.tag = "LastModified" -> "Last-Modified"
      [] self.tag = "ExtensionHeader" -> self.name

\* The literals, were the TE literal spelled as the parser spells it.
NamePrefix_parser_spelling(self) ==
    IF self.tag = "Te" THEN "Te: " ELSE header_name(self) \o ": "

\* The "Name: " literal write_header emits for each known tag.
NamePrefix(self) ==
    CASE self.tag = "CacheControl" -> "Cache-Control: "
      [] self.tag = "Connection" -> "Connection: "
      [] self.tag = "Date" -> "Date: "
      [] self.tag = "Pragma" -> "Pragma: "
      [] self.tag = "Trailer" -> "Trailer: "
      [] self.tag = "TransferEncoding" -> "Transfer-Encoding: "
      [] self.tag = "Upgrade" -> "Upgrade: "
      [] self.tag = "Via" -> "Via: "
      [] self.tag = "Warning" -> "Warning: "
      [] self.tag = "Accept" -> "Accept: "
      [] self.tag = "AcceptCharset" -> "Accept-Charset: "
      [] self.tag = "AcceptEncoding" -> "Accept-Encoding: "
      [] self.tag = "AcceptLanguage" -> "Accept-Language: "
      [] self.tag = "Authorization" -> "Authorization: "
      [] self.tag = "Expect" -> "Expect: "
      [] self.tag = "From" -> "From: "
      [] self.tag = "Host" -> "Host: "
      [] self.tag = "IfMatch" -> "If-Match: "
      [] self.tag = "IfModifiedSince" -> "If-Modified-Since: "
      [] self.tag = "IfNoneMatch" -> "If-None-Match: "
      [] self.tag = "IfRange" -> "If-Range: "
      [] self.tag = "IfUnmodifiedSince" -> "If-Unmodified-Since: "
      [] self.tag = "MaxForwards" -> "Max-Forwards: "
      [] self.tag = "ProxyAuthorization" -> "Proxy-Authorization: "
      [] self.tag = "Range" -> "Range: "
      [] self.tag = "Referer" -> "Referer: "
      [] self.tag = "Te" -> "TE: "
      [] self.tag = "UserAgent" -> "User-Agent: "
      [] self.tag = "Allow" -> "Allow: "
      [] self.tag = "ContentEncoding" -> "Content-Encoding: "
      [] self.tag = "ContentLanguage" -> "Content-Language: "
      [] self.tag = "ContentLength" -> "Content-Length: "
      [] self.tag = "ContentLocation" -> "Content-Location: "
      [] self.tag = "ContentMd5" -> "Content-MD5: "
      [] self.tag = "ContentRange" -> "Content-Range: "
      [] self.tag = "ContentType" -> "Content-Type: "
      [] self.tag = "Expires" -> "Expires: "
      [] self.tag = "LastModified" -> "Last-Modified: "

\* write_header, were the extension value written as it is, unquoted.
write_header_unquoted(self, writer) ==
    IF self.tag = "ExtensionHeader"
    THEN writer \o ((("" \o self.name) \o ": ") \o self.value)
    ELSE ((writer \o NamePrefix(self)) \o to_stream(PayloadType(self.tag), self.value))
           \o "\r\n"

\* write_header, were an extension name that spells a known field in another
\* letter case written in the canonical spelling.
write_header_canonicalizing(self, writer) ==
    IF self.tag = "ExtensionHeader"
    THEN LET canonical == CASE self.name = "HOST" -> "Host"
                            [] self.name = "content-length" -> "Content-Length"
                            [] OTHER -> self.name
         IN  writer \o push_maybe_quoted_string(("" \o canonical) \o ": ", self.value)
    ELSE ((writer \o NamePrefix(self)) \o to_stream(PayloadType(self.tag), self.value))
           \o "\r\n"

\* Header::write_header: the sink after the call.  The extension arm builds
\* name, ": " and the maybe-quoted value and returns; every other arm
\* writes its literal, the payload's to_stream and "\r\n".
write_header(self, writer) ==
    IF self.tag = "ExtensionHeader"
    THEN LET s == push_maybe_quoted_string(("" \o self.name) \o ": ", self.value)
         IN  writer \o s
    ELSE ((writer \o NamePrefix(self)) \o to_stream(PayloadType(self.tag), self.value))
           \o "\r\n"

\* One arm of value_from_stream: Some(v) => Some(Tag(v)), None => None.
from_stream_as(tag, value) ==
    LET r == from_stream(PayloadType(tag), value)
    IN  IF r # None THEN Some(Hdr(tag, r[1])) ELSE None

\* The names value_from_stream matches, as spelled in its arms.
NameTable ==
    {"Cache-Control", "Connection", "Date", "Pragma",
     "Trailer", "Transfer-Encoding", "Upgrade", "Via",
     "Warning", "Accept", "Accept-Charset", "Accept-Encoding",
     "Accept-Language", "Authorization", "Expect", "From",
     "Host", "If-Match", "If-Modified-Since", "If-NoneMatch",
     "If-Range", "If-Unmodified-Since", "Max-Forwards", "Proxy-Authorization",
     "Range", "Referer", "Te", "User-Agent",
     "Allow", "Content-Encoding", "Content-Language", "Content-Length",
     "Content-Location", "Content-Md5", "Content-Range", "Content-Type",
     "Expires", "Last-Modified"}

\* The arm of value_from_stream a name selects, by the tag it constructs;
\* the names are compared exactly, and the default arm is the extension.
match_name(name) ==
    CASE name = "Cache-Control" -> "CacheControl"
      [] name = "Connection" -> "Connection"
      [] name = "Date" -> "Date"
      [] name = "Pragma" -> "Pragma"
      [] name = "Trailer" -> "Trailer"
      [] name = "Transfer-Encoding" -> "TransferEncoding"
      [] name = "Upgrade" -> "Upgrade"
      [] name = "Via" -> "Via"
      [] name = "Warning" -> "Warning"
      [] name = "Accept" -> "Accept"
      [] name = "Accept-Charset" -> "AcceptCharset"
      [] name = "Accept-Encoding" -> "AcceptEncoding"
      [] name = "Accept-Language" -> "AcceptLanguage"
      [] name = "Authorization" -> "Authorization"
      [] name = "Expect" -> "Expect"
      [] name = "From" -> "From"
      [] name = "Host" -> "Host"
      [] name = "If-Match" -> "IfMatch"
      [] name = "If-Modified-Since" -> "IfModifiedSince"
      [] name = "If-NoneMatch" -> "IfNoneMatch"
      [] name = "If-Range" -> "IfRange"
      [] name = "If-Unmodified-Since" -> "IfUnmodifiedSince"
      [] name = "Max-Forwards" -> "MaxForwards"
      [] name = "Proxy-Authorization" -> "ProxyAuthorization"
      [] name = "Range" -> "Range"
      [] name = "Referer" -> "Referer"
      [] name = "Te" -> "Te"
      [] name = "User-Agent" -> "UserAgent"
      [] name = "Allow" -> "Allow"
      [] name = "Content-Encoding" -> "ContentEncoding"
      [] name = "Content-Language" -> "ContentLanguage"
      [] name = "Content-Length" -> "ContentLength"
      [] name = "Content-Location" -> "ContentLocation"
      [] name = "Content-Md5" -> "ContentMd5"
      [] name = "Content-Range" -> "ContentRange"
      [] name = "Content-Type" -> "ContentType"
      [] name = "Expires" -> "Expires"
      [] name = "Last-Modified" -> "LastModified"
      [] OTHER -> "ExtensionHeader"

\* value_from_stream, were an unknown name refused instead of wrapped.
value_from_stream_refusing(name, value) ==
    IF match_name(name) # "ExtensionHeader"
    THEN from_stream_as(match_name(name), value)
    ELSE None

\* value_from_stream, were a known field whose value does not convert
\* kept as an extension header.
value_from_stream_falling_back(name, value) ==
    LET r == IF match_name(name) # "ExtensionHeader"
             THEN from_stream_as(match_name(name), value)
             ELSE None
    IN  IF r # None THEN r
        ELSE Some(ExtensionHeader(name, maybe_unquote_string(collect_to_str(value))[1]))

\* value_from_stream, were the Max-Forwards arm built with the
\* constructor of the other unsigned field.
value_from_stream_wrong_constructor(name, value) ==
    IF name = "Max-Forwards"
    THEN from_stream_as("ContentLength", value)
    ELSE IF match_name(name) # "ExtensionHeader"
    THEN from_stream_as(match_name(name), value)
    ELSE LET r == maybe_unquote_string(collect_to_str(value))
         IN  IF r # None THEN Some(ExtensionHeader(name, r[1])) ELSE None

\* value_from_stream, were the names content-length and HOST matched
\* whatever their letter case.
value_from_stream_ignoring_case(name, value) ==
    LET spelled == CASE name = "content-length" -> "Content-Length"
                     [] name = "HOST" -> "Host"
                     [] OTHER -> name
    IN  IF match_name(spelled) # "ExtensionHeader"
        THEN from_stream_as(match_name(spelled), value)
        ELSE LET r == maybe_unquote_string(collect_to_str(value))
             IN  IF r # None THEN Some(ExtensionHeader(name, r[1])) ELSE None

\* Header::value_from_stream
value_from_stream(name, value) ==
    IF match_name(name) # "ExtensionHeader"
    THEN from_stream_as(match_name(name), value)
    ELSE LET r == maybe_unquote_string(collect_to_str(value))
         IN  IF r # None THEN Some(ExtensionHeader(name, r[1])) ELSE None
\* --------------------------------------------------- wire line framing ---

\* The reader's split of one written line into the field name and the
\* value bytes: the name ends at the first ":", the value follows ": " and
\* ends before "\r\n" (or with the bytes, when no line end was written).
split_line(line) ==
    LET i == IndexOf(line, ":")
        rest == SubSeq(line, i + 2, Len(line))
        j == IndexOf(rest, "\r")
    IN  [name |-> SubSeq(line, 1, i - 1),
         value |-> IF j = 0 THEN rest ELSE SubSeq(rest, 1, j - 1)]

\* ------------------------------------------------------------- inputs ---

\* Text payloads: every text up to MaxLen, and the text of the
\* specification's quoting example.
Texts == TextsUpTo(MaxLen) \cup {"need \"escaping\""}

\* Raw values: every text up to MaxValueLen, and the values of the
\* specification's parsing examples.
Values == TextsUpTo(MaxValueLen) \cup {"abc", "42", "0"}

ConnectionValues == {<<"close">>, <<"keep-alive", "Upgrade">>}

AllowValues == {<<"GET">>, <<"GET", "HEAD">>}

HostValues ==
    {[name |-> "example.com", port |-> None], [name |-> "localhost", port |-> Some(8080)]}

\* Payloads a written header may carry.
Payloads(type) ==
    CASE type = "~str" -> Texts
      [] type = "uint" -> 0..MaxUint
      [] type = "Tm" -> TmValues
      [] type = "Connection" -> ConnectionValues
      [] type = "Allow" -> AllowValues
      [] type = "Host" -> HostValues

\* Two payloads of each type, for the runs that fold or stream several headers.
SamplePayloads(type) ==
    CASE type = "~str" -> {"a", "a 1"}
      [] type = "uint" -> {0, 42}
      [] type = "Tm" -> TmValues
      [] type = "Connection" -> ConnectionValues
      [] type = "Allow" -> AllowValues
      [] type = "Host" -> HostValues

\* Extension names: free names, names that differ from a known field only in
\* letter case, and the canonical spellings of header_name.
ExtNames == {"X-Custom", "x-custom", "content-length", "HOST", "TE", "Te",
             "If-None-Match", "Content-MD5"}

SampleExtNames == {"X-Custom", "x-custom"}

RawNames == NameTable \cup ExtNames

\* -------------------------------------------------------------- state ---

VARIABLES
    collection,  \* the HeaderCollection being built
    inserted,    \* the headers handed to insert, in call order
    sink,        \* the bytes written to the writer
    written,     \* the headers handed to write_header, in call order
    name,        \* the name last handed to value_from_stream
    value,       \* the value bytes last handed to value_from_stream
    called,      \* whether value_from_stream has returned
    parsed       \* what value_from_stream returned

vars == <<collection, inserted, sink, written, name, value, called, parsed>>

Init ==
    /\ collection = new
    /\ inserted = << >>
    /\ sink = ""
    /\ written = << >>
    /\ name = ""
    /\ value = ""
    /\ called = FALSE
    /\ parsed = None

\* collection.insert(header)
Insert(header) ==
    /\ collection' = insert(collection, header)
    /\ inserted' = Append(inserted, header)
    /\ UNCHANGED <<sink, written, name, value, called, parsed>>

\* header.write_header(&mut sink)
Write(header) ==
    /\ sink' = write_header(header, sink)
    /\ written' = Append(written, header)
    /\ UNCHANGED <<collection, inserted, name, value, called, parsed>>

\* Header::value_from_stream(n, v)
Parse(n, v) ==
    /\ name' = n
    /\ value' = v
    /\ called' = TRUE
    /\ parsed' = value_from_stream(n, v)
    /\ UNCHANGED <<collection, inserted, sink, written>>

\* One header is written to a fresh sink.
WriteHeader ==
    /\ written = << >>
    /\ ~called
    /\ \/ \E t \in KnownTags : \E p \in Payloads(PayloadType(t)) : Write(Hdr(t, p))
       \/ \E n \in ExtNames, v \in Texts : Write(ExtensionHeader(n, v))

\* The written line is read back: split into name and value, then parsed.
ReadBack ==
    /\ Len(written) = 1
    /\ ~called
    /\ LET l == split_line(sink) IN Parse(l.name, l.value)

\* A name and a raw value arrive from the connection and are parsed.
ValueFromStream ==
    /\ written = << >>
    /\ ~called
    /\ \E n \in RawNames, v \in Values : Parse(n, v)

\* The header that was parsed is folded into the collection.
InsertParsed ==
    /\ called
    /\ parsed # None
    /\ inserted = << >>
    /\ Insert(parsed[1])

Next == WriteHeader \/ ReadBack \/ ValueFromStream \/ InsertParsed

Spec == Init /\ [][Next]_vars

\* A collection is built by a sequence of insert calls.
InsertHeader ==
    /\ Len(inserted) < MaxInserts
    /\ \/ \E t \in KnownTags : \E p \in SamplePayloads(PayloadType(t)) : Insert(Hdr(t, p))
       \/ \E n \in SampleExtNames, v \in SamplePayloads("~str") :
             Insert(ExtensionHeader(n, v))

NextCollection == InsertHeader

SpecCollection == Init /\ [][NextCollection]_vars

\* Several headers are written to one sink.
StreamWrite ==
    /\ Len(written) < MaxWrites
    /\ \/ \E t \in KnownTags : \E p \in SamplePayloads(PayloadType(t)) : Write(Hdr(t, p))
       \/ \E n \in SampleExtNames, v \in SamplePayloads("~str") :
             Write(ExtensionHeader(n, v))

NextStream == StreamWrite

SpecStream == Init /\ [][NextStream]_vars

\* ------------------------------------------------------------- claims ---

IsKnown(h) == h.tag \in KnownTags

IsExtension(h) == h.tag = "ExtensionHeader"

\* Two headers are the same variant with the same payload.  The tags are
\* compared first: payloads of different tags have different types.
SameHeader(g, h) ==
    /\ g.tag = h.tag
    /\ g.value = h.value
    /\ (IsExtension(h) => g.name = h.name)

Last(indices) == CHOOSE i \in indices : \A j \in indices : j <= i

\* The payload of the most recently inserted variant of a known tag, if any.
LastInserted(tag) ==
    LET at == {i \in 1..Len(inserted) : inserted[i].tag = tag}
    IN  IF at = {} THEN None ELSE Some(inserted[Last(at)].value)

\* C1: after any sequence of insert calls on a new collection, every
\* known-field slot is empty when no variant of its tag was inserted and
\* otherwise holds the payload of the most recently inserted variant of
\* that tag (insert is defined on every header, so no call fails).
C1_SlotsHoldLastInserted ==
    \A tag \in KnownTags : slot(collection, tag) = LastInserted(tag)

\* C1 witness: the same known field inserted twice with different payloads;
\* the slot holds the second.
C1_Witness ==
    /\ Len(inserted) = 2
    /\ IsKnown(inserted[1])
    /\ inserted[1].tag = inserted[2].tag
    /\ inserted[1].value # inserted[2].value
    /\ slot(collection, inserted[2].tag) = Some(inserted[2].value)

ExtensionInserts(n) ==
    {i \in 1..Len(inserted) : IsExtension(inserted[i]) /\ inserted[i].name = n}

InsertedExtensionNames ==
    {inserted[i].name : i \in {j \in 1..Len(inserted) : IsExtension(inserted[j])}}

\* C2: the extensions mapping has exactly one entry per distinct extension
\* name inserted (names compared exactly), holding the value of the last
\* ExtensionHeader inserted with that name.
C2_ExtensionsHoldLastInserted ==
    /\ DOMAIN collection.extensions = InsertedExtensionNames
    /\ \A n \in InsertedExtensionNames :
           collection.extensions[n] = inserted[Last(ExtensionInserts(n))].value

\* C2 witness: one extension name inserted twice with different values.
C2_Witness ==
    /\ Len(inserted) = 2
    /\ IsExtension(inserted[1]) /\ IsExtension(inserted[2])
    /\ inserted[1].name = inserted[2].name
    /\ inserted[1].value # inserted[2].value
    /\ DOMAIN collection.extensions = {inserted[2].name}
    /\ collection.extensions[inserted[2].name] = inserted[2].value

\* The bytes a header's payload is written as.
ValueBytes(h) ==
    IF IsExtension(h) THEN push_maybe_quoted_string("", h.value)
    ELSE to_stream(PayloadType(h.tag), h.value)

\* C3: for a known-tag variant, write_header puts on the sink exactly the
\* canonical name header_name returns, then ": ", then the payload's
\* to_stream bytes, then "\r\n", and nothing else.
C3_KnownLineIsNameColonValueCrlf ==
    (Len(written) = 1 /\ IsKnown(written[1])) =>
        sink = ((header_name(written[1]) \o ": ")
                    \o to_stream(PayloadType(written[1].tag), written[1].value)) \o "\r\n"

\* C3 witness: Content-MD5 written with a payload holding a space and a
\* quote; the line carries the canonical name and the payload as it is.
C3_Witness ==
    /\ Len(written) = 1
    /\ written[1].tag = "ContentMd5"
    /\ written[1].value = " \""
    /\ sink = "Content-MD5:  \"\r\n"

RECURSIVE Lines(_)
\* The wire lines of a sequence of headers, each "Name: value\r\n".
Lines(hs) ==
    IF hs = << >> THEN ""
    ELSE (((header_name(hs[1]) \o ": ") \o ValueBytes(hs[1])) \o "\r\n") \o Lines(Tail(hs))

\* C4: writing any sequence of variants, known or extension, to one sink
\* yields the concatenation of their lines, each name, ": ", value (quoted
\* when needed for an extension) and the terminating "\r\n".
C4_EveryLineIsTerminated == sink = Lines(written)

\* C5: for a known-field variant whose payload round-trips through its own
\* conversion, parsing the name and value write_header wrote returns Some
\* of a variant with the same tag and payload.
C5_KnownFieldRoundTrips ==
    (/\ called
     /\ Len(written) = 1
     /\ IsKnown(written[1])
     /\ from_stream(PayloadType(written[1].tag),
                    to_stream(PayloadType(written[1].tag), written[1].value))
            = Some(written[1].value))
        => (parsed # None /\ SameHeader(parsed[1], written[1]))

\* C6: for a name that matches no entry of the known-name table,
\* value_from_stream returns Some(ExtensionHeader(name, v)) with the name
\* unchanged and v the unquoted value (the value itself when it does not
\* open with a quote); it never returns None.
C6_UnknownNameIsExtension ==
    (called /\ name \notin NameTable) =>
        /\ parsed # None
        /\ IsExtension(parsed[1])
        /\ parsed[1].name = name
        /\ Some(parsed[1].value) = maybe_unquote_string(value)
        /\ ((value = "" \/ At(value, 1) # "\"") => parsed[1].value = value)

\* C6 witness: an unknown name with a value whose quoting is malformed.
C6_Witness ==
    /\ called
    /\ written = << >>
    /\ name = "X-Custom"
    /\ value = "\"a"
    /\ parsed = Some(ExtensionHeader("X-Custom", "\"a"))

\* C7: when the name matches a known-table entry and that field's
\* from_stream returns None, value_from_stream returns None.
C7_KnownNameBadValueIsNone ==
    (/\ called
     /\ name \in NameTable
     /\ from_stream(PayloadType(match_name(name)), value) = None)
        => parsed = None

\* C7 witness: Content-Length with the value abc.
C7_Witness ==
    /\ called
    /\ name = "Content-Length"
    /\ value = "abc"
    /\ parsed = None

\* C8: an extension header whose name is outside the known-name table
\* round-trips: parsing the name and value bytes write_header produced
\* returns ExtensionHeader with the same name and the original value.
C8_ExtensionRoundTrips ==
    (/\ called
     /\ Len(written) = 1
     /\ IsExtension(written[1])
     /\ written[1].name \notin NameTable)
        => (parsed # None /\ SameHeader(parsed[1], written[1]))

\* C8 witness: X-Custom with the value need "escaping".
C8_Witness ==
    /\ called
    /\ Len(written) = 1
    /\ IsExtension(written[1])
    /\ written[1].name = "X-Custom"
    /\ written[1].value = "need \"escaping\""
    /\ value = "\"need \\\"escaping\\\"\""
    /\ parsed = Some(ExtensionHeader("X-Custom", "need \"escaping\""))

\* C9: header_name is defined for every tag; for a known tag it returns one
\* spelling whatever the payload and however the name was spelled when
\* parsed, and distinct known tags have distinct names.
C9_CanonicalNameIsFixedAndDistinct ==
    \A i \in 1..(Len(written) + Len(parsed)) :
        LET h == IF i <= Len(written) THEN written[i] ELSE parsed[i - Len(written)]
        IN  /\ Len(header_name(h)) > 0
            /\ IsKnown(h) =>
                 \A t \in KnownTags : \A p \in SamplePayloads(PayloadType(t)) :
                     (t = h.tag) <=> (header_name(Hdr(t, p)) = header_name(h))

\* C9 witness: TE parsed from the spelling "Te" is named "TE".
C9_Witness ==
    /\ called
    /\ name = "Te"
    /\ parsed # None
    /\ parsed[1].tag = "Te"
    /\ header_name(parsed[1]) = "TE"

\* C10: for an ExtensionHeader, header_name and the name bytes write_header
\* writes are the stored name, character for character, also when the name
\* differs from a known field name only in letter case.
C10_ExtensionNameIsVerbatim ==
    (Len(written) = 1 /\ IsExtension(written[1])) =>
        /\ header_name(written[1]) = written[1].name
        /\ SubSeq(sink, 1, Len(written[1].name) + 2) = written[1].name \o ": "

\* C10 witness: an extension named content-length.
C10_Witness ==
    /\ Len(written) = 1
    /\ IsExtension(written[1])
    /\ written[1].name = "content-length"
    /\ SubSeq(sink, 1, 16) = "content-length: "

\* The known tags whose canonical name is the given name.
TagsNamed(n) ==
    {t \in KnownTags : \A p \in SamplePayloads(PayloadType(t)) : header_name(Hdr(t, p)) = n}

\* C11: for a name of the known-name table whose field's from_stream
\* returns Some(v), value_from_stream returns Some of the variant of the tag
\* registered for that name (the tag that carries the name as its canonical
\* name, where one does), carrying v unchanged; inserting it leaves the
\* slot of that tag holding Some(v), which is not the empty slot.
C11_KnownNameGoodValueIsTyped ==
    (/\ called
     /\ name \in NameTable
     /\ from_stream(PayloadType(match_name(name)), value) # None)
        => /\ parsed # None
           /\ parsed[1].tag = match_name(name)
           /\ \A t \in TagsNamed(name) : parsed[1].tag = t
           /\ Some(parsed[1].value) = from_stream(PayloadType(parsed[1].tag), value)
           /\ (inserted # << >> =>
                 /\ slot(collection, parsed[1].tag) = Some(parsed[1].value)
                 /\ slot(collection, parsed[1].tag) # None)

\* C11 witness: Max-Forwards with the value 0, parsed and inserted.
C11_Witness ==
    /\ called
    /\ name = "Max-Forwards"
    /\ value = "0"
    /\ parsed = Some(Hdr("MaxForwards", 0))
    /\ inserted # << >>
    /\ collection.max_forwards = Some(0)
    /\ collection.max_forwards # None

\* Two headers are stored in the same place: the same known slot, or the
\* same extension name.
SameTarget(g, h) ==
    /\ g.tag = h.tag
    /\ (IsExtension(h) => g.name = h.name)

\* What one insert call leaves alone, from the collection before to the
\* collection after.
InsertFrame(before, h, after) ==
    /\ \A t \in KnownTags \ {h.tag} : slot(after, t) = slot(before, t)
    /\ IsKnown(h) => after.extensions = before.extensions
    /\ IsExtension(h) =>
          /\ DOMAIN after.extensions = (DOMAIN before.extensions) \cup {h.name}
          /\ \A n \in (DOMAIN before.extensions) \ {h.name} :
                 after.extensions[n] = before.extensions[n]

\* C12: insert changes only its target: a known-tag variant leaves every
\* other known slot and the extensions mapping unchanged, an ExtensionHeader
\* leaves every known slot and every entry under another name unchanged; so
\* two variants with different targets give the same collection in either
\* order.
C12_InsertChangesOnlyItsTarget ==
    [][(inserted' # inserted) =>
          /\ InsertFrame(collection, inserted'[Len(inserted')], collection')
          /\ (Len(inserted') = 2 /\ ~SameTarget(inserted'[1], inserted'[2])) =>
                collection' = insert(insert(new, inserted'[2]), inserted'[1])]_vars

\* C12 witness: a known field and an extension header were inserted, in
\* this order, and the collection holds both.
C12_Witness ==
    /\ Len(inserted) = 2
    /\ IsExtension(inserted[1])
    /\ IsKnown(inserted[2])
    /\ collection.extensions = TreeMapInsert(EmptyMap, inserted[1].name, inserted[1].value)
    /\ slot(collection, inserted[2].tag) = Some(inserted[2].value)
    /\ collection = insert(insert(new, inserted[2]), inserted[1])

UpperCase == "ABCDEFGHIJKLMNOPQRSTUVWXYZ"

LowerCase == "abcdefghijklmnopqrstuvwxyz"

RECURSIVE ToLower(_)
\* The text with every upper-case letter replaced by its lower-case letter.
ToLower(s) ==
    IF s = "" THEN ""
    ELSE LET c == At(s, 1)
             i == IndexOf(UpperCase, c)
         IN  (IF i = 0 THEN c ELSE At(LowerCase, i)) \o ToLower(Tail(s))

\* The entries of the known-name table a name differs from only in
\* letter case (the table's names are lowered once).
LowerOfTable == [k \in NameTable |-> ToLower(k)]

CaseVariantsOf(n) ==
    LET lower == ToLower(n) IN {k \in NameTable : k # n /\ LowerOfTable[k] = lower}

\* C13: name dispatch is an exact, case-sensitive comparison: a name that
\* differs from a known-table entry only in letter case is not parsed with
\* that field's parser but returned as an ExtensionHeader carrying the name
\* as given and the unquoted value; inserted, it lands in the extensions
\* mapping and leaves the slot of the known field empty.
C13_DispatchIsCaseSensitive ==
    (called /\ name \notin NameTable /\ CaseVariantsOf(name) # {}) =>
        /\ parsed # None
        /\ IsExtension(parsed[1])
        /\ parsed[1].name = name
        /\ Some(parsed[1].value) = maybe_unquote_string(value)
        /\ (inserted # << >> =>
              /\ name \in DOMAIN collection.extensions
              /\ collection.extensions[name] = parsed[1].value
              /\ \A k \in CaseVariantsOf(name) : slot(collection, match_name(k)) = None)

\* C13 witness: content-length with the value 42, parsed and inserted.
C13_Witness ==
    /\ called
    /\ name = "content-length"
    /\ value = "42"
    /\ parsed = Some(ExtensionHeader("content-length", "42"))
    /\ inserted # << >>
    /\ collection.content_length = None
    /\ collection.extensions = TreeMapInsert(EmptyMap, "content-length", "42")

====
